---- MODULE Spec2Model ----
(***************************************************************************)
(* Disk head scheduling policies of streamlitapp.py (fcfs, sstf, scan,     *)
(* cscan, look, clook), the explanation generator get_seek_explanation,    *)
(* the dispatcher get_result, and the two callers of get_result: the       *)
(* simulation section (one call) and the comparison section (two calls on  *)
(* the same queue list).                                                   *)
(*                                                                         *)
(* The five policies without a loop are operators.  sstf is a while loop   *)
(* that edits a list, so it is modelled step by step: one action for its   *)
(* prologue, one per iteration, one for its return.  Python lists are      *)
(* objects: the caller's list is `queue`, the list made by                 *)
(* `requests[:]` is `requests`, and `requests_ref` says which of the two   *)
(* the name `requests` inside sstf is bound to.                            *)
(***************************************************************************)
EXTENDS Integers, Sequences, FiniteSets

\* ---------------------------------------------------------------- bounds
MaxLen == 3
MaxVal == 2

\* default of the max_cylinder parameter of scan and cscan; get_result
\* never passes another value
max_cylinder == 200

\* cylinders the inputs are drawn from: the low ones, and the top cylinder
Cyls == (0..MaxVal) \cup {max_cylinder - 1}

RECURSIVE SeqsUpTo(_)
SeqsUpTo(n) ==
    IF n = 0 THEN {<<>>}
    ELSE LET S == SeqsUpTo(n - 1)
         IN  S \cup {Append(s, c) : s \in {t \in S : Len(t) = n - 1}, c \in Cyls}

Queues == SeqsUpTo(MaxLen)

Policies == {"FCFS", "SSTF", "SCAN", "CSCAN", "LOOK", "CLOOK"}
\* a name get_result has no branch for
OtherNames == {"RR"}
Names == Policies \cup OtherNames

\* ------------------------------------------------------- python builtins
Abs(x) == IF x < 0 THEN -x ELSE x

Last(s) == s[Len(s)]

\* place v in a list already ordered (ascending, or descending if reverse)
RECURSIVE Insert(_, _, _)
Insert(v, s, reverse) ==
    IF s = <<>> THEN <<v>>
    ELSE IF (IF reverse THEN v > Head(s) ELSE v < Head(s))
         THEN <<v>> \o s
         ELSE <<Head(s)>> \o Insert(v, Tail(s), reverse)

\* sorted(s) and sorted(s, reverse=True)
RECURSIVE Sorted(_, _)
Sorted(s, reverse) ==
    IF s = <<>> THEN <<>>
    ELSE Insert(Last(s), Sorted(SubSeq(s, 1, Len(s) - 1), reverse), reverse)

\* [r for r in requests if r < head]
Below(requests, h) == SelectSeq(requests, LAMBDA r : r < h)

AtOrAboveStrict(requests, h) == SelectSeq(requests, LAMBDA r : r > h)

\* [r for r in requests if r >= head]
AtOrAbove(requests, h) == SelectSeq(requests, LAMBDA r : r >= h)

\* sum(abs(seq[i] - seq[i + 1]) for i in range(len(seq) - 1))
RECURSIVE SumSeek(_, _)
SumSeek(seq, n) ==
    IF n <= 0 THEN 0
    ELSE SumSeek(seq, n - 1) + Abs(seq[n] - seq[n + 1])

TotalSeek(seq) == SumSeek(seq, Len(seq) - 1)

\* list.remove(v): drops the first element equal to v
RECURSIVE Remove(_, _)
Remove(s, v) ==
    IF s = <<>> THEN <<>>
    ELSE IF Head(s) = v THEN Tail(s)
         ELSE <<Head(s)>> \o Remove(Tail(s), v)

MinLast(requests, h) ==
    LET i == CHOOSE k \in DOMAIN requests :
                 /\ \A j \in DOMAIN requests : Abs(requests[k] - h) <= Abs(requests[j] - h)
                 /\ \A j \in DOMAIN requests :
                        j > k => Abs(requests[j] - h) > Abs(requests[k] - h)
    IN  requests[i]

MinFirstSubmitted(requests, h) == requests[1]

\* min(requests, key=lambda x: abs(x - head)) returns the first element,
\* in list order, whose key is the least
Min(requests, h) ==
    LET i == CHOOSE k \in DOMAIN requests :
                 /\ \A j \in DOMAIN requests : Abs(requests[k] - h) <= Abs(requests[j] - h)
                 /\ \A j \in DOMAIN requests :
                        j < k => Abs(requests[j] - h) > Abs(requests[k] - h)
    IN  requests[i]

\* ------------------------------------------------------- return values
Pair(seek_sequence, total_seek) ==
    [kind |-> "pair", path |-> seek_sequence, seek |-> total_seek]

\* a function that falls off its end returns None
None == [kind |-> "none", path |-> <<>>, seek |-> 0]

\* --------------------------------------------------------------- policies
fcfs(requests, h) ==
    LET seek_sequence == <<h>> \o requests
    IN  Pair(seek_sequence, TotalSeek(seek_sequence))

scanBoundaryLast(requests, h) ==
    LET left == Sorted(Below(requests, h), TRUE)
        right == Sorted(AtOrAbove(requests, h), FALSE)
        seek_sequence == <<h>> \o right \o left \o <<max_cylinder - 1>>
    IN  Pair(seek_sequence, TotalSeek(seek_sequence))

scanStrict(requests, h) ==
    LET left == Sorted(Below(requests, h), TRUE)
        right == Sorted(AtOrAboveStrict(requests, h), FALSE)
        seek_sequence == <<h>> \o right \o <<max_cylinder - 1>> \o left
    IN  Pair(seek_sequence, TotalSeek(seek_sequence))

scan(requests, h) ==
    LET left == Sorted(Below(requests, h), TRUE)
        right == Sorted(AtOrAbove(requests, h), FALSE)
        seek_sequence == <<h>> \o right \o <<max_cylinder - 1>> \o left
    IN  Pair(seek_sequence, TotalSeek(seek_sequence))

cscan(requests, h) ==
    LET left == Sorted(Below(requests, h), FALSE)
        right == Sorted(AtOrAbove(requests, h), FALSE)
        seek_sequence == <<h>> \o right \o <<max_cylinder - 1, 0>> \o left
    IN  Pair(seek_sequence, TotalSeek(seek_sequence))

lookAscending(requests, h) ==
    LET left == Sorted(Below(requests, h), FALSE)
        right == Sorted(AtOrAbove(requests, h), FALSE)
        seek_sequence == <<h>> \o right \o left
    IN  Pair(seek_sequence, TotalSeek(seek_sequence))

look(requests, h) ==
    LET left == Sorted(Below(requests, h), TRUE)
        right == Sorted(AtOrAbove(requests, h), FALSE)
        seek_sequence == <<h>> \o right \o left
    IN  Pair(seek_sequence, TotalSeek(seek_sequence))

clookDescending(requests, h) ==
    LET left == Sorted(Below(requests, h), TRUE)
        right == Sorted(AtOrAbove(requests, h), FALSE)
        seek_sequence == <<h>> \o right \o left
    IN  Pair(seek_sequence, TotalSeek(seek_sequence))

clook(requests, h) ==
    LET left == Sorted(Below(requests, h), FALSE)
        right == Sorted(AtOrAbove(requests, h), FALSE)
        seek_sequence == <<h>> \o right \o left
    IN  Pair(seek_sequence, TotalSeek(seek_sequence))

\* get_result for every name but "SSTF" (whose branch runs the sstf loop);
\* a name with no branch falls through the if/elif chain
get_result(algo, q, h) ==
    IF algo = "FCFS" THEN fcfs(q, h)
    ELSE IF algo = "SCAN" THEN scan(q, h)
    ELSE IF algo = "CSCAN" THEN cscan(q, h)
    ELSE IF algo = "LOOK" THEN look(q, h)
    ELSE IF algo = "CLOOK" THEN clook(q, h)
    ELSE None

\* ---------------------------------------------------- explanation generator
\* the loop of get_seek_explanation after i iterations: the records
\* (path[i+1], path[i], diff) behind the formatted lines, and the total
RECURSIVE ExplainLoop(_, _)
ExplainLoop(path, i) ==
    IF i <= 0 THEN [steps |-> <<>>, total |-> 0]
    ELSE LET prev == ExplainLoop(path, i - 1)
             diff == Abs(path[i + 1] - path[i])
         IN  [steps |-> Append(prev.steps, <<path[i + 1], path[i], diff>>),
              total |-> prev.total + diff]

get_seek_explanation(path) == ExplainLoop(path, Len(path) - 1)

\* ------------------------------------------------------------------ state
VARIABLES
    queue,          \* the caller's list (list(map(int, ...)))
    head,           \* the caller's head position
    section,        \* "simulate" (one call) or "compare" (two calls)
    algos,          \* the names get_result was called with, in order
    rets,           \* what the finished get_result calls returned
    pc,             \* "caller", "sstf" (inside the loop), "done", "error"
    requests_ref,   \* sstf: which list its name `requests` is bound to
    requests,       \* sstf: the list made by requests[:]
    cur,            \* sstf: its local `head`
    seek_sequence,  \* sstf: its local seek_sequence
    total_seek      \* sstf: its local total_seek

vars == <<queue, head, section, algos, rets, pc, requests_ref, requests, cur,
          seek_sequence, total_seek>>

sstfLocals == <<requests_ref, requests, cur, seek_sequence, total_seek>>

NumCalls == IF section = "simulate" THEN 1 ELSE 2

Init ==
    /\ queue \in Queues
    /\ head \in Cyls
    /\ section \in {"simulate", "compare"}
    /\ algos = <<>>
    /\ rets = <<>>
    /\ pc = "caller"
    /\ requests_ref = "none"
    /\ requests = <<>>
    /\ cur = 0
    /\ seek_sequence = <<>>
    /\ total_seek = 0

\* the caller's `path, seek = get_result(...)`: unpacking None raises
AfterReturn(ret, n) ==
    IF ret.kind = "none" THEN "error"
    ELSE IF n >= NumCalls THEN "done" ELSE "caller"

\* get_result(algo, queue, head) for a name other than "SSTF"
Call(algo) ==
    /\ pc = "caller"
    /\ Len(rets) < NumCalls
    /\ algo # "SSTF"
    /\ algos' = Append(algos, algo)
    /\ rets' = Append(rets, get_result(algo, queue, head))
    /\ pc' = AfterReturn(get_result(algo, queue, head), Len(rets) + 1)
    /\ UNCHANGED <<queue, head, section, sstfLocals>>

AliasRef == "arg"

\* requests = requests[:] binds the name to a fresh list
SliceRef == "copy"

\* get_result("SSTF", ...) up to the first loop test
SstfEnter ==
    /\ pc = "caller"
    /\ Len(rets) < NumCalls
    /\ algos' = Append(algos, "SSTF")
    /\ requests_ref' = SliceRef
    /\ requests' = IF SliceRef = "copy" THEN queue ELSE <<>>
    /\ seek_sequence' = <<head>>
    /\ total_seek' = 0
    /\ cur' = head
    /\ pc' = "sstf"
    /\ UNCHANGED <<queue, head, section, rets>>

\* the list the name `requests` inside sstf denotes
Pending == IF requests_ref = "arg" THEN queue ELSE requests

AccumulateSigned(total, h, closest) == total + (closest - h)

\* total_seek += abs(head - closest)
Accumulate(total, h, closest) == total + Abs(h - closest)

\* one iteration of `while requests:`
SstfStep ==
    /\ pc = "sstf"
    /\ Pending # <<>>
    /\ LET closest == Min(Pending, cur)
       IN  /\ total_seek' = Accumulate(total_seek, cur, closest)
           /\ seek_sequence' = Append(seek_sequence, closest)
           /\ cur' = closest
           /\ IF requests_ref = "arg"
              THEN queue' = Remove(queue, closest) /\ UNCHANGED requests
              ELSE requests' = Remove(requests, closest) /\ UNCHANGED queue
    /\ UNCHANGED <<head, section, algos, rets, pc, requests_ref>>

\* the loop test fails: return seek_sequence, total_seek
SstfReturn ==
    /\ pc = "sstf"
    /\ Pending = <<>>
    /\ rets' = Append(rets, Pair(seek_sequence, total_seek))
    /\ pc' = AfterReturn(Pair(seek_sequence, total_seek), Len(rets) + 1)
    /\ requests_ref' = "none"
    /\ requests' = <<>>
    /\ cur' = 0
    /\ seek_sequence' = <<>>
    /\ total_seek' = 0
    /\ UNCHANGED <<queue, head, section, algos>>

Next ==
    \/ \E algo \in Names : Call(algo)
    \/ SstfEnter
    \/ SstfStep
    \/ SstfReturn

Spec == Init /\ [][Next]_vars

\* ------------------------------------------------------------ properties
Count(s, v) == Cardinality({i \in DOMAIN s : s[i] = v})

RECURSIVE SumDiffs(_)
SumDiffs(steps) ==
    IF steps = <<>> THEN 0 ELSE steps[Len(steps)][3] + SumDiffs(SubSeq(steps, 1, Len(steps) - 1))

\* the finished calls that returned a pair
Returned == {i \in DOMAIN rets : rets[i].kind = "pair"}

Reverse(s) == [i \in 1..Len(s) |-> s[Len(s) + 1 - i]]

NonDecreasing(s, lo, hi) == \A i \in lo..hi : \A j \in lo..hi : i < j => s[i] <= s[j]

NonIncreasing(s, lo, hi) == \A i \in lo..hi : \A j \in lo..hi : i < j => s[i] >= s[j]

\* number of requests at or above the head
NumAtOrAbove == Cardinality({i \in DOMAIN queue : queue[i] >= head})

\* C1: for every policy, the returned total is >= 0 and equals the total
\* get_seek_explanation computes for the returned sequence, which is the sum
\* of the differences it records, one per consecutive pair.
C1_TotalMatchesExplanation ==
    \A i \in Returned :
        LET e == get_seek_explanation(rets[i].path)
        IN  /\ rets[i].seek >= 0
            /\ rets[i].seek = e.total
            /\ rets[i].seek = SumDiffs(e.steps)
            /\ Len(e.steps) = Len(rets[i].path) - 1
            /\ \A k \in DOMAIN e.steps :
                   e.steps[k][3] = Abs(rets[i].path[k + 1] - rets[i].path[k])

C1_Witness ==
    \E i \in Returned :
        /\ algos[i] = "SSTF"
        /\ Len(rets[i].path) = 4
        /\ rets[i].path[2] < head
        /\ rets[i].path[3] > rets[i].path[2]
        /\ rets[i].seek > 0

\* boundary entries a policy inserts with value v
Inserted(algo, v) ==
    IF algo \in {"SCAN", "CSCAN"} /\ v = max_cylinder - 1 THEN 1
    ELSE IF algo = "CSCAN" /\ v = 0 THEN 1
    ELSE 0

NumInserted(algo) ==
    IF algo = "SCAN" THEN 1 ELSE IF algo = "CSCAN" THEN 2 ELSE 0

\* C2: the returned sequence is the head followed by a rearrangement of the
\* request list that keeps every multiplicity, plus only the inserted
\* boundary entries (one for SCAN, two for CSCAN); so its length is n+1,
\* n+2 for SCAN, n+3 for CSCAN.
C2_HeadThenRearrangement ==
    \A i \in Returned :
        /\ rets[i].path[1] = head
        /\ Len(rets[i].path) = Len(queue) + 1 + NumInserted(algos[i])
        /\ \A v \in Cyls \cup {0, max_cylinder - 1} :
               Count(Tail(rets[i].path), v) = Count(queue, v) + Inserted(algos[i], v)
        /\ \A k \in DOMAIN rets[i].path :
               rets[i].path[k] \in Cyls \cup {0, max_cylinder - 1}

C2_Witness ==
    \E i \in Returned :
        /\ algos[i] = "SCAN"
        /\ Len(queue) = 3
        /\ Count(queue, head) = 2
        /\ Len(rets[i].path) = 5

\* C3 (as claimed): with an empty request list every policy returns [head]
\* and a total of 0.
C3_EmptyQueue ==
    \A i \in Returned : queue = <<>> => rets[i] = Pair(<<head>>, 0)

\* C4 (as claimed): get_result called with a name that is none of the six
\* policies ends in an UnknownPolicy error, never in a normal return.
C4_UnknownPolicyFails ==
    \A i \in DOMAIN rets : algos[i] \notin Policies => rets[i].kind = "UnknownPolicy"

\* an iteration of the sstf loop is being taken
SstfIteration == pc = "sstf" /\ Len(seek_sequence') = Len(seek_sequence) + 1

\* C5: every cylinder sstf appends is at minimal distance from the current
\* position among the requests pending before that step; each step serves
\* exactly one request, and the loop returns after n steps with none pending.
C5_SstfGreedy ==
    /\ [](pc = "sstf" => Len(seek_sequence) - 1 + Len(Pending) = Len(queue))
    /\ [][SstfIteration =>
            /\ \A k \in DOMAIN Pending :
                   Abs(Last(seek_sequence') - Last(seek_sequence))
                       <= Abs(Pending[k] - Last(seek_sequence))
            /\ \E k \in DOMAIN Pending : Pending[k] = Last(seek_sequence')
            /\ Len(Pending') = Len(Pending) - 1]_vars
    /\ [][(pc = "sstf" /\ pc' # "sstf") =>
            /\ Pending = <<>>
            /\ Len(Last(rets').path) = Len(queue) + 1]_vars

C5_Witness ==
    /\ pc = "sstf"
    /\ Len(seek_sequence) = 3
    /\ Len(Pending) = 1
    /\ seek_sequence[2] # queue[1]
    /\ seek_sequence[3] # seek_sequence[2]

\* two pending requests, one below and one above the current position, at
\* the same distance, which is the least among the pending ones
Tie(lo, hi) ==
    /\ lo \in DOMAIN Pending
    /\ hi \in DOMAIN Pending
    /\ Pending[lo] < cur
    /\ cur < Pending[hi]
    /\ cur - Pending[lo] = Pending[hi] - cur
    /\ \A k \in DOMAIN Pending : Abs(Pending[k] - cur) >= cur - Pending[lo]

\* C6 (as claimed): on a tie sstf serves the smaller cylinder, whatever the
\* submission order.
C6_TieSmaller ==
    [][SstfIteration =>
         \A lo \in DOMAIN Pending : \A hi \in DOMAIN Pending :
             Tie(lo, hi) => Last(seek_sequence') = Pending[lo]]_vars

\* C6 (amended): on a tie sstf serves the tied request that comes first in
\* the pending list, i.e. in submission order; it is the smaller cylinder
\* exactly when a request of that value precedes every request of the
\* larger value.
C6_TieFirstSubmitted ==
    [][SstfIteration =>
         \A lo \in DOMAIN Pending : \A hi \in DOMAIN Pending :
             Tie(lo, hi) =>
                 LET first == CHOOSE k \in DOMAIN Pending :
                                  /\ Pending[k] \in {Pending[lo], Pending[hi]}
                                  /\ \A j \in 1..(k - 1) :
                                         Pending[j] \notin {Pending[lo], Pending[hi]}
                 IN  /\ Last(seek_sequence') = Pending[first]
                     /\ Last(seek_sequence') = Pending[lo] <=> Pending[first] = Pending[lo]]_vars

\* the first step served the larger of two tied requests
C6_Witness ==
    /\ pc = "sstf"
    /\ Len(seek_sequence) = 2
    /\ seek_sequence[2] > head
    /\ \E k \in DOMAIN Pending : head - Pending[k] = seek_sequence[2] - head

\* C7 (as claimed): the top boundary occurs exactly once in a SCAN sequence,
\* between the two groups; in a CSCAN sequence the top boundary and 0 each
\* occur exactly once, there, 0 right after the top boundary.
C7_BoundaryOnce ==
    \A i \in Returned :
        LET path == rets[i].path
            k == NumAtOrAbove + 2
        IN  /\ algos[i] = "SCAN" =>
                /\ path[k] = max_cylinder - 1
                /\ Count(path, max_cylinder - 1) = 1
            /\ algos[i] = "CSCAN" =>
                /\ path[k] = max_cylinder - 1
                /\ path[k + 1] = 0
                /\ Count(path, max_cylinder - 1) = 1
                /\ Count(path, 0) = 1

\* C7 (amended): SCAN inserts one entry max_cylinder-1 right after the
\* at-or-above requests and right before the below requests; CSCAN inserts
\* max_cylinder-1 and then 0 there.  The inserted entries come on top of the
\* occurrences of these values in the head and the request list.
C7_BoundaryInserted ==
    \A i \in Returned :
        LET path == rets[i].path
            k == NumAtOrAbove + 2
            given == <<head>> \o queue
        IN  /\ algos[i] = "SCAN" =>
                /\ path[k] = max_cylinder - 1
                /\ \A j \in 2..(k - 1) : path[j] >= head
                /\ \A j \in (k + 1)..Len(path) : path[j] < head
                /\ Count(path, max_cylinder - 1) = 1 + Count(given, max_cylinder - 1)
            /\ algos[i] = "CSCAN" =>
                /\ path[k] = max_cylinder - 1
                /\ path[k + 1] = 0
                /\ \A j \in 2..(k - 1) : path[j] >= head
                /\ \A j \in (k + 2)..Len(path) : path[j] < head
                /\ Count(path, max_cylinder - 1) = 1 + Count(given, max_cylinder - 1)
                /\ Count(path, 0) = 1 + Count(given, 0)

C7_Witness ==
    \E i \in Returned :
        /\ algos[i] = "SCAN"
        /\ Count(queue, max_cylinder - 1) = 1
        /\ NumAtOrAbove = 2
        /\ Len(queue) = 3
        /\ Count(rets[i].path, max_cylinder - 1) = 2

\* C8: clook returns the head, then the requests >= head ascending, then the
\* requests < head ascending, and inserts nothing.
C8_ClookOrder ==
    \A i \in Returned :
        algos[i] = "CLOOK" =>
            LET path == rets[i].path
                k == NumAtOrAbove + 1
            IN  /\ path[1] = head
                /\ Len(path) = Len(queue) + 1
                /\ \A j \in 2..k : path[j] >= head
                /\ \A j \in (k + 1)..Len(path) : path[j] < head
                /\ NonDecreasing(path, 2, k)
                /\ NonDecreasing(path, k + 1, Len(path))
                /\ \A v \in Cyls : Count(Tail(path), v) = Count(queue, v)

C8_Witness ==
    \E i \in Returned :
        /\ algos[i] = "CLOOK"
        /\ Len(rets[i].path) = 4
        /\ rets[i].path[2] = head
        /\ rets[i].path[3] < rets[i].path[4]
        /\ rets[i].path[4] < head

\* C9: no call changes the caller's list or head, and two calls of the same
\* policy in the comparison section return the same sequence and total.
C9_QueueUntouched ==
    /\ [][queue' = queue /\ head' = head]_vars
    /\ [](\A i \in DOMAIN rets : \A j \in DOMAIN rets :
              algos[i] = algos[j] => rets[i] = rets[j])

C9_Witness ==
    /\ pc = "done"
    /\ algos = <<"SSTF", "SSTF">>
    /\ Len(queue) = 3
    /\ rets[2].path[2] # queue[1]

\* C10 (as claimed): look and clook return the same sequence and total.
C10_LookEqualsClook ==
    \A i \in Returned : \A j \in Returned :
        (algos[i] = "LOOK" /\ algos[j] = "CLOOK") => rets[i] = rets[j]

\* C10 (amended): look and clook share the head and the ascending
\* at-or-above run; look then serves the below requests descending, clook
\* serves them in the reverse order, ascending.  Their results are equal
\* exactly when the below requests have at most one distinct value.
C10_LookVersusClook ==
    \A i \in Returned : \A j \in Returned :
        (algos[i] = "LOOK" /\ algos[j] = "CLOOK") =>
            LET lp == rets[i].path
                cp == rets[j].path
                k == NumAtOrAbove + 1
                n == Len(lp)
            IN  /\ Len(cp) = n
                /\ SubSeq(lp, 1, k) = SubSeq(cp, 1, k)
                /\ NonDecreasing(lp, 2, k)
                /\ \A m \in (k + 1)..n : lp[m] < head
                /\ NonIncreasing(lp, k + 1, n)
                /\ SubSeq(cp, k + 1, n) = Reverse(SubSeq(lp, k + 1, n))
                /\ (rets[i] = rets[j]) <=>
                       Cardinality({queue[m] : m \in {x \in DOMAIN queue : queue[x] < head}}) <= 1

C10_Witness ==
    \E i \in Returned : \E j \in Returned :
        /\ algos[i] = "LOOK"
        /\ algos[j] = "CLOOK"
        /\ rets[i].path # rets[j].path
        /\ rets[i].seek # rets[j].seek

====
